---- MODULE Spec2Model ----
(***************************************************************************)
(* platypus-diff: tokenizer (src/src/tokenizer.rs), three-layer affine-gap *)
(* aligner, whitespace interleaver and line renderer                       *)
(* (src/src/alignment.rs), and the pipeline of main (src/src/main.rs).     *)
(*                                                                         *)
(* A text is a sequence of code points; a code point is a one-element      *)
(* string, "nbsp" standing for U+00A0 (whitespace, two bytes in UTF-8).    *)
(* Offsets are byte offsets, as in the source.  f64 scores are kept in     *)
(* tenths (0.3 -> 3, 0.7 -> 7, 1.0 -> 10, 100.0 -> 1000) so that sums      *)
(* are exact.                                                              *)
(***************************************************************************)
EXTENDS Integers, Sequences, FiniteSets, TLC

VARIABLES
    \* TokenParser (tokenizer.rs:61-66) and the consumer collecting its items
    source, position, next_tokens, prev_indentation, yielded, last_item, tpc,
    \* the slices given to align or to interleave_tokens, and the operations
    \* of the Alignment (alignment.rs:221-223)
    left, right, operations,
    \* align (alignment.rs:168-218)
    current, rows_done, apc,
    \* Alignment::interleave_tokens (alignment.rs:416-459); script is the
    \* alignment as it was when the call began
    script, old_alignment, left_iter, right_iter, left_position,
    right_position, ipc,
    \* Alignment::output_lines and DiffLineOutput (alignment.rs:252-397)
    op_index, left_buf, right_buf, equal, out, prev_was_space, colorize, rpc,
    \* main (main.rs:519-536)
    left_text, right_text, left_tokens, left_whitespaces, right_tokens,
    right_whitespaces, mpc,
    \* one call of Token::insert_score or Token::mutation_score
    self_token, other_token, same_flag, returned, spc,
    \* one call of AlignmentState::pick_best or extract_best: the three
    \* candidate (or layer) scores and the AlignmentData returned
    mutation_cost, insert_left_cost, insert_right_cost, picked, ppc

tokVars == <<source, position, next_tokens, prev_indentation, yielded,
             last_item, tpc>>
sharedVars == <<left, right, operations>>
alignVars == <<current, rows_done, apc>>
interVars == <<script, old_alignment, left_iter, right_iter, left_position,
               right_position, ipc>>
renderVars == <<op_index, left_buf, right_buf, equal, out, prev_was_space,
                colorize, rpc>>
mainVars == <<left_text, right_text, left_tokens, left_whitespaces,
              right_tokens, right_whitespaces, mpc>>
scoreVars == <<self_token, other_token, same_flag, returned, spc>>
pickVars == <<mutation_cost, insert_left_cost, insert_right_cost, picked, ppc>>
vars == <<tokVars, sharedVars, alignVars, interVars, renderVars, mainVars,
          scoreVars, pickVars>>

-----------------------------------------------------------------------------
(* Bounds of the model.                                                    *)

MaxSourceLen == 4       \* code points of a tokenizer source
MaxAlignLen == 3        \* tokens of each side given to align
MaxInterLen == 2        \* ops of a script and tokens of a secondary sequence
MaxRenderLen == 3       \* operations of a script given to output_lines
MaxTextLen == 3         \* code points of each text given to main
MaxIndent == 4          \* indent field of a block marker given to the scores
MaxCost == 4            \* finite candidate score given to pick_best

\* Option<T>: None is the empty sequence, Some(x) is <<x>>
None == <<>>
Some(x) == <<x>>
unwrap(o) == o[1]

-----------------------------------------------------------------------------
(* Code points and texts.                                                  *)

WhitespaceChars == {" ", "\n", "nbsp"}
WordChars == {"a", "b", "c", "A", "_"}
BlockChars == {"(", ")", "[", "]", "{", "}"}
OtherChars == {"+", ":"}

len_utf8(c) == IF c = "nbsp" THEN 2 ELSE 1

RECURSIVE len(_)
len(s) == IF s = <<>> THEN 0 ELSE len_utf8(Head(s)) + len(Tail(s))

is_whitespace(c) == c \in WhitespaceChars
is_alphanumeric(c) == c \in WordChars \ {"_"}

to_lowercase_char(c) == IF c = "A" THEN "a" ELSE c
to_lowercase(s) == [i \in 1..Len(s) |-> to_lowercase_char(s[i])]

contains(s, c) == \E i \in 1..Len(s) : s[i] = c

\* s.split('\n').last(): what follows the final newline
RECURSIVE split_last(_)
split_last(s) ==
    IF s = <<>> THEN <<>>
    ELSE IF s[Len(s)] = "\n" THEN <<>>
    ELSE Append(split_last(SubSeq(s, 1, Len(s) - 1)), s[Len(s)])

\* s.split('\n') as a sequence of segments
RECURSIVE split_newline(_)
split_newline(s) ==
    IF ~contains(s, "\n") THEN <<s>>
    ELSE LET i == CHOOSE k \in 1..Len(s) :
                      s[k] = "\n" /\ \A j \in 1..(k - 1) : s[j] # "\n"
         IN <<SubSeq(s, 1, i - 1)>> \o split_newline(SubSeq(s, i + 1, Len(s)))

is_char_boundary(s, pos) == \E i \in 0..Len(s) : len(SubSeq(s, 1, i)) = pos

\* s.split_at(pos).1
split_at_1(s, pos) ==
    LET i == CHOOSE k \in 0..Len(s) : len(SubSeq(s, 1, k)) = pos
    IN SubSeq(s, i + 1, Len(s))

\* s.get(start..end): None when an end is not on a code point boundary
get(s, start, end) ==
    IF start <= end /\ is_char_boundary(s, start) /\ is_char_boundary(s, end)
    THEN LET i == CHOOSE k \in 0..Len(s) : len(SubSeq(s, 1, k)) = start
             j == CHOOSE k \in 0..Len(s) : len(SubSeq(s, 1, k)) = end
         IN Some(SubSeq(s, i + 1, j))
    ELSE None

-----------------------------------------------------------------------------
(* Tokens (tokenizer.rs:3-20).                                             *)

WhiteSpace == [kind |-> "WhiteSpace", indent |-> 0]
SpecialCharacter == [kind |-> "SpecialCharacter", indent |-> 0]
Word == [kind |-> "Word", indent |-> 0]
BlockStart(n) == [kind |-> "BlockStart", indent |-> n]
BlockEnd(n) == [kind |-> "BlockEnd", indent |-> n]

Token(text, start, t) == [text |-> text, start |-> start, t |-> t]

RECURSIVE ConcatTexts(_)
ConcatTexts(toks) ==
    IF toks = <<>> THEN <<>>
    ELSE Head(toks).text \o ConcatTexts(Tail(toks))

IsBlock(tok) == tok.t.kind \in {"BlockStart", "BlockEnd"}
token_is_whitespace(tok) == tok.t = WhiteSpace

-----------------------------------------------------------------------------
(* Tokenizer (tokenizer.rs:79-156).                                        *)

\* Mutant: the block-chars not told apart from the other special characters
char_type_without_blocks(c) ==
    IF is_whitespace(c) THEN "WhiteSpace"
    ELSE IF is_alphanumeric(c) \/ c = "_" THEN "Word"
    ELSE "Other"

char_type(c) ==
    IF is_whitespace(c) THEN "WhiteSpace"
    ELSE IF is_alphanumeric(c) \/ c = "_" THEN "Word"
    ELSE IF c \in BlockChars THEN "BlockChar"
    ELSE "Other"

\* rest.chars().take_while(|x| char_type(*x) == c_type).map(len_utf8).sum()
RECURSIVE run_len(_, _)
run_len(rest, c_type) ==
    IF rest = <<>> \/ char_type(Head(rest)) # c_type THEN 0
    ELSE len_utf8(Head(rest)) + run_len(Tail(rest), c_type)

token_type_of(c_type) ==
    CASE c_type = "WhiteSpace" -> WhiteSpace
      [] c_type = "Word" -> Word
      [] c_type = "Other" -> SpecialCharacter
      [] c_type = "BlockChar" -> SpecialCharacter

TokenParser(src, pos, queue, indent) ==
    [source |-> src, position |-> pos, next_tokens |-> queue,
     prev_indentation |-> indent]

parse(text) == TokenParser(text, 0, <<>>, 0)

\* Mutant: the indentation counted in code points instead of bytes
current_indentation_chars(p, whitespace_text) ==
    IF contains(whitespace_text, "\n")
    THEN Len(split_last(whitespace_text))
    ELSE p.prev_indentation

\* The indentation measured on a whitespace token (tokenizer.rs:136-140)
current_indentation(p, whitespace_text) ==
    IF contains(whitespace_text, "\n")
    THEN len(split_last(whitespace_text))
    ELSE p.prev_indentation

\* Mutant: the marker sliced like the whitespace token before it
block_marker_with_text(p, whitespace_text, new_position) ==
    IF current_indentation(p, whitespace_text) # p.prev_indentation
    THEN <<Token(whitespace_text, new_position,
                 IF current_indentation(p, whitespace_text) < p.prev_indentation
                 THEN BlockEnd(p.prev_indentation)
                 ELSE BlockStart(current_indentation(p, whitespace_text)))>>
    ELSE <<>>

\* Mutant: the marker placed where the whitespace token starts
block_marker_at_start(p, whitespace_text, new_position) ==
    IF current_indentation(p, whitespace_text) # p.prev_indentation
    THEN <<Token(unwrap(get(p.source, p.position, p.position)), p.position,
                 IF current_indentation(p, whitespace_text) < p.prev_indentation
                 THEN BlockEnd(p.prev_indentation)
                 ELSE BlockStart(current_indentation(p, whitespace_text)))>>
    ELSE <<>>

\* Mutant: a change of indentation closes the old block and opens a new one
block_marker_end_and_start(p, whitespace_text, new_position) ==
    IF current_indentation(p, whitespace_text) # p.prev_indentation
    THEN <<Token(unwrap(get(p.source, new_position, new_position)), new_position,
                 BlockEnd(p.prev_indentation)),
           Token(unwrap(get(p.source, new_position, new_position)), new_position,
                 BlockStart(current_indentation(p, whitespace_text)))>>
    ELSE <<>>

\* What a whitespace token pushes on next_tokens: no marker or one
block_marker(p, whitespace_text, new_position) ==
    IF current_indentation(p, whitespace_text) # p.prev_indentation
    THEN <<Token(unwrap(get(p.source, new_position, new_position)), new_position,
                 IF current_indentation(p, whitespace_text) < p.prev_indentation
                 THEN BlockEnd(p.prev_indentation)
                 ELSE BlockStart(current_indentation(p, whitespace_text)))>>
    ELSE <<>>

\* TokenParser::next: the item returned and the parser afterwards
next(p) ==
    IF p.next_tokens # <<>>
    THEN [item |-> Some(Head(p.next_tokens)),
          parser |-> [p EXCEPT !.next_tokens = Tail(p.next_tokens)]]
    ELSE
    LET rest_of_text == split_at_1(p.source, p.position)
    IN IF rest_of_text = <<>>
       THEN [item |-> None, parser |-> p]
       ELSE
       LET c_type == char_type(Head(rest_of_text))
           length == IF c_type = "BlockChar"
                     THEN len_utf8(Head(rest_of_text))
                     ELSE run_len(rest_of_text, c_type)
           start == p.position
           end == p.position + length
           token == Token(unwrap(get(p.source, start, end)), start,
                          token_type_of(c_type))
           new_position == p.position + length
           whitespace_text ==
               unwrap(get(p.source, new_position - length, new_position))
       IN [item |-> Some(token),
           parser |->
             IF c_type = "WhiteSpace"
             THEN [p EXCEPT
                     !.position = new_position,
                     !.next_tokens =
                         p.next_tokens \o block_marker(p, whitespace_text, new_position),
                     !.prev_indentation = current_indentation(p, whitespace_text)]
             ELSE [p EXCEPT !.position = new_position]]

\* TokenParser::parse(text).collect(): every item up to the first None
RECURSIVE collect(_)
collect(p) ==
    LET r == next(p)
    IN IF r.item = None THEN <<>> ELSE r.item \o collect(r.parser)

-----------------------------------------------------------------------------
(* Scoring (tokenizer.rs:22-58), in tenths.                                *)

INFINITY == 1000000
PANIC == -1

\* f64 addition on scores: INFINITY + x = INFINITY
add(a, b) == IF a = INFINITY THEN INFINITY ELSE a + b

abs_diff(a, b) == IF a < b THEN b - a ELSE a - b

insert_score(tok, previous_is_same) ==
    LET extra == IF tok.t.kind = "BlockEnd" THEN 10 ELSE 0
    IN IF previous_is_same THEN 3 + extra ELSE 7 + extra

\* Mutant: the early return for different token types is missing
mutation_score_without_type_check(self, other) ==
    IF self.t.kind \in {"BlockStart", "BlockEnd"}
    THEN IF other.t.kind \in {"BlockStart", "BlockEnd"}
         THEN 10 * abs_diff(self.t.indent, other.t.indent)
         ELSE PANIC
    ELSE IF to_lowercase(self.text) = to_lowercase(other.text) THEN 0 ELSE 10

mutation_score(self, other) ==
    IF self.t # other.t THEN 1000
    ELSE IF self.t.kind \in {"BlockStart", "BlockEnd"}
    THEN IF other.t.kind \in {"BlockStart", "BlockEnd"}
         THEN 10 * abs_diff(self.t.indent, other.t.indent)
         ELSE PANIC
    ELSE IF to_lowercase(self.text) = to_lowercase(other.text) THEN 0 ELSE 10

-----------------------------------------------------------------------------
(* Alignment operations and the persistent path list (alignment.rs:7-42).  *)

Mutation(l, r) == [op |-> "Mutation", left |-> Some(l), right |-> Some(r)]
InsertLeft(l) == [op |-> "InsertLeft", left |-> Some(l), right |-> None]
InsertRight(r) == [op |-> "InsertRight", left |-> None, right |-> Some(r)]

\* PathList: End is <<>>, Node{payload, previous} puts the payload in front
End == <<>>
Node(payload, previous) == <<payload>> \o previous

RECURSIVE reverse(_)
reverse(s) == IF s = <<>> THEN <<>> ELSE Append(reverse(Tail(s)), Head(s))

\* Mutant: the payloads in the order the list is walked, newest first
extract_path_unreversed(path) == path

\* PathList::extract_path: walk from the newest node, then reverse
extract_path(path) == reverse(path)

-----------------------------------------------------------------------------
(* The three-layer cell (alignment.rs:44-164).                             *)

AlignmentData(score, path) == [score |-> score, path |-> path]
new == AlignmentData(0, End)
unreachable == AlignmentData(INFINITY, End)

AlignmentState(m, il, ir) ==
    [last_was_mutation |-> m, last_was_insert_left |-> il,
     last_was_insert_right |-> ir]

\* Mutant: the insert-left candidate wins whenever it beats insert-right
pick_best_left_first(self, payload, mutation, insert_left, insert_right) ==
    IF insert_left < insert_right
    THEN AlignmentData(insert_left,
                       Node(payload, self.last_was_insert_left.path))
    ELSE IF insert_right < mutation
         THEN AlignmentData(insert_right,
                            Node(payload, self.last_was_insert_right.path))
         ELSE AlignmentData(mutation,
                            Node(payload, self.last_was_mutation.path))

\* Mutant: a tie with the mutation candidate goes to the insert
pick_best_non_strict(self, payload, mutation, insert_left, insert_right) ==
    IF insert_left < insert_right
    THEN IF insert_left <= mutation
         THEN AlignmentData(insert_left,
                            Node(payload, self.last_was_insert_left.path))
         ELSE AlignmentData(mutation,
                            Node(payload, self.last_was_mutation.path))
    ELSE IF insert_right <= mutation
         THEN AlignmentData(insert_right,
                            Node(payload, self.last_was_insert_right.path))
         ELSE AlignmentData(mutation,
                            Node(payload, self.last_was_mutation.path))

pick_best(self, payload, mutation, insert_left, insert_right) ==
    IF insert_left < insert_right
    THEN IF insert_left < mutation
         THEN AlignmentData(insert_left,
                            Node(payload, self.last_was_insert_left.path))
         ELSE AlignmentData(mutation,
                            Node(payload, self.last_was_mutation.path))
    ELSE IF insert_right < mutation
         THEN AlignmentData(insert_right,
                            Node(payload, self.last_was_insert_right.path))
         ELSE AlignmentData(mutation,
                            Node(payload, self.last_was_mutation.path))

\* Mutant: the comparisons of extract_best turned around
extract_best_worst(self) ==
    IF self.last_was_mutation.score > self.last_was_insert_left.score
    THEN IF self.last_was_mutation.score > self.last_was_insert_right.score
         THEN self.last_was_mutation
         ELSE self.last_was_insert_right
    ELSE IF self.last_was_insert_left.score > self.last_was_insert_right.score
         THEN self.last_was_insert_left
         ELSE self.last_was_insert_right

extract_best(self) ==
    IF self.last_was_mutation.score < self.last_was_insert_left.score
    THEN IF self.last_was_mutation.score < self.last_was_insert_right.score
         THEN self.last_was_mutation
         ELSE self.last_was_insert_right
    ELSE IF self.last_was_insert_left.score < self.last_was_insert_right.score
         THEN self.last_was_insert_left
         ELSE self.last_was_insert_right

\* Mutant: the extension flags copied from insert_right_score
insert_left_score_flags_of_right(self, l) ==
    pick_best(self, InsertLeft(l),
              add(self.last_was_mutation.score, insert_score(l, FALSE)),
              add(self.last_was_insert_left.score, insert_score(l, FALSE)),
              add(self.last_was_insert_right.score, insert_score(l, TRUE)))

insert_left_score(self, l) ==
    pick_best(self, InsertLeft(l),
              add(self.last_was_mutation.score, insert_score(l, FALSE)),
              add(self.last_was_insert_left.score, insert_score(l, TRUE)),
              add(self.last_was_insert_right.score, insert_score(l, FALSE)))

\* Mutant: the payload copied from insert_left_score
insert_right_score_as_left(self, r) ==
    pick_best(self, InsertLeft(r),
              add(self.last_was_mutation.score, insert_score(r, FALSE)),
              add(self.last_was_insert_left.score, insert_score(r, FALSE)),
              add(self.last_was_insert_right.score, insert_score(r, TRUE)))

insert_right_score(self, r) ==
    pick_best(self, InsertRight(r),
              add(self.last_was_mutation.score, insert_score(r, FALSE)),
              add(self.last_was_insert_left.score, insert_score(r, FALSE)),
              add(self.last_was_insert_right.score, insert_score(r, TRUE)))

state_mutation_score(self, l, r) ==
    LET s == mutation_score(l, r)
    IN pick_best(self, Mutation(l, r),
                 add(self.last_was_mutation.score, s),
                 add(self.last_was_insert_left.score, s),
                 add(self.last_was_insert_right.score, s))

-----------------------------------------------------------------------------
(* align (alignment.rs:168-218).                                           *)

\* The first loop: row 0, one insert-left cell per left token
RECURSIVE first_row(_, _)
first_row(row, rest) ==
    IF rest = <<>> THEN row
    ELSE first_row(
           Append(row, AlignmentState(unreachable,
                                      insert_left_score(row[Len(row)], Head(rest)),
                                      unreachable)),
           Tail(rest))

\* The inner loop over left for one right token r; l_index as in the source
RECURSIVE row_cells(_, _, _, _, _)
row_cells(row, nxt, r, lefts, l_index) ==
    IF l_index > Len(lefts) THEN nxt
    ELSE row_cells(row,
           Append(nxt, AlignmentState(
               state_mutation_score(row[l_index], lefts[l_index], r),
               insert_left_score(nxt[l_index], lefts[l_index]),
               insert_right_score(row[l_index + 1], r))),
           r, lefts, l_index + 1)

\* One iteration of the outer loop: the row that replaces current
next_row(row, r, lefts) ==
    row_cells(row,
              <<AlignmentState(unreachable, unreachable,
                               insert_right_score(row[1], r))>>,
              r, lefts, 1)

RECURSIVE all_rows(_, _, _)
all_rows(row, lefts, rights) ==
    IF rights = <<>> THEN row
    ELSE all_rows(next_row(row, Head(rights), lefts), lefts, Tail(rights))

\* current.pop().unwrap().extract_best().path, flattened
result_of(row) == extract_path(extract_best(row[Len(row)]).path)

align(lefts, rights) ==
    result_of(all_rows(first_row(<<AlignmentState(new, unreachable, unreachable)>>,
                                 lefts),
                       lefts, rights))

-----------------------------------------------------------------------------
(* Alignment::interleave_tokens (alignment.rs:416-459).                    *)

\* Mutant: the arguments of Option::or the other way round
or_swapped(a, b) == IF b # None THEN b ELSE a

\* Option::or
or(a, b) == IF a # None THEN a ELSE b

\* Mutant: a token that starts at the anchor is taken too
RECURSIVE taken_before_inclusive(_, _)
taken_before_inclusive(iter, pos) ==
    IF iter # <<>> /\ Head(iter).start <= pos.start
    THEN <<Head(iter)>> \o taken_before_inclusive(Tail(iter), pos)
    ELSE <<>>

\* The tokens a `while iter.peek().map(|p| p.start() < pos.start())` loop
\* takes from the front of iter
RECURSIVE taken_before(_, _)
taken_before(iter, pos) ==
    IF iter # <<>> /\ Head(iter).start < pos.start
    THEN <<Head(iter)>> \o taken_before(Tail(iter), pos)
    ELSE <<>>

\* The loop under `if let Some(position) = position`
drained(iter, pos) == IF pos = None THEN <<>> ELSE taken_before(iter, unwrap(pos))

insert_rights(toks) == [i \in 1..Len(toks) |-> InsertRight(toks[i])]
insert_lefts(toks) == [i \in 1..Len(toks) |-> InsertLeft(toks[i])]

Interleaving(old, li, ri, lp, rp, ops) ==
    [old_alignment |-> old, left |-> li, right |-> ri, left_position |-> lp,
     right_position |-> rp, operations |-> ops]

\* Lines 417-424: the operations are swapped out and reversed
interleave_start(ops, lefts, rights) ==
    Interleaving(reverse(ops), lefts, rights, None, None, <<>>)

\* Mutant: the op pushed before the secondary tokens that precede it
interleave_step_op_first(st) ==
    LET a == st.old_alignment[Len(st.old_alignment)]
        rp == or(a.right, st.right_position)
        rs == drained(st.right, rp)
        lp == or(a.left, st.left_position)
        ls == drained(st.left, lp)
    IN Interleaving(SubSeq(st.old_alignment, 1, Len(st.old_alignment) - 1),
                    SubSeq(st.left, Len(ls) + 1, Len(st.left)),
                    SubSeq(st.right, Len(rs) + 1, Len(st.right)),
                    lp, rp,
                    st.operations \o <<a>> \o insert_rights(rs)
                        \o insert_lefts(ls))

\* One iteration of `while let Some(a) = old_alignment.pop()` (425-453)
interleave_step(st) ==
    LET a == st.old_alignment[Len(st.old_alignment)]
        rp == or(a.right, st.right_position)
        rs == drained(st.right, rp)
        lp == or(a.left, st.left_position)
        ls == drained(st.left, lp)
    IN Interleaving(SubSeq(st.old_alignment, 1, Len(st.old_alignment) - 1),
                    SubSeq(st.left, Len(ls) + 1, Len(st.left)),
                    SubSeq(st.right, Len(rs) + 1, Len(st.right)),
                    lp, rp,
                    st.operations \o insert_rights(rs) \o insert_lefts(ls)
                        \o <<a>>)

\* Mutant: the left tokens that remain are not flushed
interleave_finish_right_only(st) ==
    [st EXCEPT !.left = <<>>, !.right = <<>>,
               !.operations = st.operations \o insert_rights(st.right)]

\* Lines 454-457: what remains of right, then what remains of left
interleave_finish(st) ==
    [st EXCEPT !.left = <<>>, !.right = <<>>,
               !.operations = st.operations \o insert_rights(st.right)
                                \o insert_lefts(st.left)]

RECURSIVE interleave_loop(_)
interleave_loop(st) ==
    IF st.old_alignment = <<>> THEN st ELSE interleave_loop(interleave_step(st))

interleave_tokens(ops, lefts, rights) ==
    interleave_finish(interleave_loop(interleave_start(ops, lefts, rights))).operations

-----------------------------------------------------------------------------
(* The renderer: OutputLine, DiffLineOutput, output_lines                  *)
(* (alignment.rs:242-397).  A colour escape sequence is one code point     *)
(* that is not whitespace; colorize is whether the terminal library emits  *)
(* escape sequences at all.                                                *)

Same(line) == [type |-> "Same", line |-> line]
Change(l, r) == [type |-> "Change", left |-> l, right |-> r]

styled(code, text) ==
    IF colorize THEN <<code>> \o text \o <<"ESC[0m">> ELSE text

red(text) == styled("ESC[31m", text)
green(text) == styled("ESC[32m", text)
red_strikethrough(text) == styled("ESC[9;31m", text)

spaces(n) == [i \in 1..n |-> " "]

any_not_whitespace(buf) == \E i \in 1..Len(buf) : ~is_whitespace(buf[i])

DiffLineOutput(l, r, e, o) == [left |-> l, right |-> r, equal |-> e, out |-> o]

clear(d) == [d EXCEPT !.left = <<>>, !.right = <<>>, !.equal = TRUE]

DiffLineOutput_new == clear(DiffLineOutput(<<>>, <<>>, TRUE, <<>>))

\* Mutant: the line is pushed and the buffers are kept
flush_without_clear(d) ==
    [d EXCEPT !.out =
        Append(d.out,
               IF d.equal
               THEN Same(d.right)
               ELSE Change(IF any_not_whitespace(d.left) THEN Some(d.left) ELSE None,
                           IF any_not_whitespace(d.right) THEN Some(d.right) ELSE None))]

flush(d) ==
    clear([d EXCEPT !.out =
        Append(d.out,
               IF d.equal
               THEN Same(d.right)
               ELSE Change(IF any_not_whitespace(d.left) THEN Some(d.left) ELSE None,
                           IF any_not_whitespace(d.right) THEN Some(d.right) ELSE None))])

add_same(d, line) ==
    [d EXCEPT !.left = d.left \o spaces(Len(line)),
              !.right = d.right \o line]

\* Mutant: the two texts are appended without padding the shorter one
add_mutation_without_padding(d, l, r) ==
    [d EXCEPT !.equal = FALSE,
              !.left = d.left \o red(l),
              !.right = d.right \o green(r)]

add_mutation(d, l, r) ==
    [d EXCEPT !.equal = FALSE,
              !.left = d.left \o red(l)
                         \o (IF len(l) < len(r) THEN spaces(len(r) - len(l)) ELSE <<>>),
              !.right = d.right \o green(r)
                          \o (IF len(l) < len(r) THEN <<>> ELSE spaces(len(l) - len(r)))]

\* Mutant: the removed text goes to the left buffer, spaces to the right
insert_left_on_left(d, text) ==
    [d EXCEPT !.equal = FALSE,
              !.left = d.left \o red_strikethrough(text),
              !.right = d.right \o spaces(Len(text))]

insert_left(d, text) ==
    [d EXCEPT !.equal = FALSE,
              !.left = d.left \o spaces(Len(text)),
              !.right = d.right \o red_strikethrough(text)]

insert_right(d, text) ==
    [d EXCEPT !.equal = FALSE,
              !.left = d.left \o spaces(Len(text)),
              !.right = d.right \o green(text)]

insert_right_space(d, text) ==
    [d EXCEPT !.equal = FALSE,
              !.left = d.left \o text,
              !.right = d.right \o text]

\* Mutant: the pieces after a newline are appended without a flush
RECURSIVE flush_segments_without_flush(_, _)
flush_segments_without_flush(d, segments) ==
    IF segments = <<>> THEN d
    ELSE flush_segments_without_flush(insert_right_space(d, Head(segments)),
                                      Tail(segments))

\* `for space in whitespace { output.flush(); output.insert_right_space(space) }`
RECURSIVE flush_segments(_, _)
flush_segments(d, segments) ==
    IF segments = <<>> THEN d
    ELSE flush_segments(insert_right_space(flush(d), Head(segments)),
                        Tail(segments))

Rendering(d, space) == [output |-> d, prev_was_space |-> space]

\* Mutant: every left whitespace token is shown, whatever came before it
render_operation_no_collapse(st, operation) ==
    CASE operation.op = "Mutation" ->
            LET left_text_ == unwrap(operation.left).text
                right_text_ == unwrap(operation.right).text
            IN Rendering(IF left_text_ = right_text_
                         THEN add_same(st.output, right_text_)
                         ELSE add_mutation(st.output, left_text_, right_text_),
                         FALSE)
      [] operation.op = "InsertLeft" ->
            IF token_is_whitespace(unwrap(operation.left))
            THEN Rendering(insert_left(st.output, <<" ">>), TRUE)
            ELSE Rendering(insert_left(st.output, unwrap(operation.left).text),
                           FALSE)
      [] operation.op = "InsertRight" ->
            IF token_is_whitespace(unwrap(operation.right))
            THEN LET whitespace == unwrap(operation.right).text
                 IN Rendering(
                      IF contains(whitespace, "\n")
                      THEN flush_segments(
                             insert_right_space(st.output,
                                                Head(split_newline(whitespace))),
                             Tail(split_newline(whitespace)))
                      ELSE insert_right_space(st.output, whitespace),
                      TRUE)
            ELSE Rendering(insert_right(st.output, unwrap(operation.right).text),
                           FALSE)

\* The body of the loop of output_lines for one operation (348-393)
render_operation(st, operation) ==
    CASE operation.op = "Mutation" ->
            LET left_text_ == unwrap(operation.left).text
                right_text_ == unwrap(operation.right).text
            IN Rendering(IF left_text_ = right_text_
                         THEN add_same(st.output, right_text_)
                         ELSE add_mutation(st.output, left_text_, right_text_),
                         FALSE)
      [] operation.op = "InsertLeft" ->
            IF token_is_whitespace(unwrap(operation.left))
            THEN Rendering(IF ~st.prev_was_space
                           THEN insert_left(st.output, <<" ">>)
                           ELSE st.output,
                           TRUE)
            ELSE Rendering(insert_left(st.output, unwrap(operation.left).text),
                           FALSE)
      [] operation.op = "InsertRight" ->
            IF token_is_whitespace(unwrap(operation.right))
            THEN LET whitespace == unwrap(operation.right).text
                 IN Rendering(
                      IF contains(whitespace, "\n")
                      THEN flush_segments(
                             insert_right_space(st.output,
                                                Head(split_newline(whitespace))),
                             Tail(split_newline(whitespace)))
                      ELSE insert_right_space(st.output, whitespace),
                      TRUE)
            ELSE Rendering(insert_right(st.output, unwrap(operation.right).text),
                           FALSE)

RECURSIVE render_all(_, _)
render_all(st, ops) ==
    IF ops = <<>> THEN st
    ELSE render_all(render_operation(st, Head(ops)), Tail(ops))

output_lines(ops) ==
    flush(render_all(Rendering(DiffLineOutput_new, TRUE), ops).output).out

\* What pretty prints for the lines of output_lines, one text per println!
RECURSIVE pretty(_)
pretty(lines) ==
    IF lines = <<>> THEN <<>>
    ELSE (IF Head(lines).type = "Same"
          THEN <<<<" ", " ">> \o Head(lines).line>>
          ELSE (IF Head(lines).left # None
                THEN <<<<"-", " ">> \o unwrap(Head(lines).left)>>
                ELSE <<>>)
               \o (IF Head(lines).right # None
                   THEN <<<<"+", " ">> \o unwrap(Head(lines).right)>>
                   ELSE <<>>))
         \o pretty(Tail(lines))

-----------------------------------------------------------------------------
(* main (main.rs:519-536): tokenize and partition both texts, align the    *)
(* significant tokens, interleave the whitespace, render.                  *)

\* Iterator::partition(|x| x.t != TokenType::WhiteSpace)
partition(toks) ==
    [significant |-> SelectSeq(toks, LAMBDA tok : tok.t # WhiteSpace),
     whitespaces |-> SelectSeq(toks, LAMBDA tok : ~(tok.t # WhiteSpace))]

-----------------------------------------------------------------------------
(* Values of the components a specification does not exercise.             *)

TokIdle ==
    /\ source = <<>> /\ position = 0 /\ next_tokens = <<>>
    /\ prev_indentation = 0 /\ yielded = <<>> /\ last_item = None
    /\ tpc = "idle"

SharedIdle ==
    /\ left = <<>> /\ right = <<>> /\ operations = <<>>

AlignIdle ==
    /\ current = <<>> /\ rows_done = 0 /\ apc = "idle"

InterIdle ==
    /\ script = <<>> /\ old_alignment = <<>> /\ left_iter = <<>>
    /\ right_iter = <<>> /\ left_position = None /\ right_position = None
    /\ ipc = "idle"

RenderIdle ==
    /\ op_index = 0 /\ left_buf = <<>> /\ right_buf = <<>>
    /\ equal = TRUE /\ out = <<>> /\ prev_was_space = TRUE
    /\ colorize = FALSE /\ rpc = "idle"

MainIdle ==
    /\ left_text = <<>> /\ right_text = <<>> /\ left_tokens = <<>>
    /\ left_whitespaces = <<>> /\ right_tokens = <<>>
    /\ right_whitespaces = <<>> /\ mpc = "idle"

ScoreIdle ==
    /\ self_token = Token(<<>>, 0, Word) /\ other_token = Token(<<>>, 0, Word)
    /\ same_flag = FALSE /\ returned = None /\ spc = "idle"

PickIdle ==
    /\ mutation_cost = 0 /\ insert_left_cost = 0 /\ insert_right_cost = 0
    /\ picked = None /\ ppc = "idle"

SeqsUpTo(S, n) == UNION {[1..k -> S] : k \in 0..n}

-----------------------------------------------------------------------------
(* The tokenizer as a state machine: one step per call of next().          *)

SourceChars == {"a", "+", "(", " ", "\n", "nbsp"}
Sources == SeqsUpTo(SourceChars, MaxSourceLen)

TokInit ==
    /\ source \in Sources
    /\ position = 0
    /\ next_tokens = <<>>
    /\ prev_indentation = 0
    /\ yielded = <<>>
    /\ last_item = None
    /\ tpc = "iterating"
    /\ SharedIdle /\ AlignIdle /\ InterIdle /\ RenderIdle /\ MainIdle /\ ScoreIdle
    /\ PickIdle

TokNext ==
    /\ tpc \in {"iterating", "exhausted"}
    /\ LET r == next(TokenParser(source, position, next_tokens, prev_indentation))
       IN /\ position' = r.parser.position
          /\ next_tokens' = r.parser.next_tokens
          /\ prev_indentation' = r.parser.prev_indentation
          /\ last_item' = r.item
          /\ yielded' = yielded \o r.item
          /\ tpc' = IF r.item = None THEN "exhausted" ELSE "iterating"
    /\ UNCHANGED <<source, sharedVars, alignVars, interVars, renderVars, mainVars,
                   scoreVars, pickVars>>

SpecTok == TokInit /\ [][TokNext]_vars

-----------------------------------------------------------------------------
(* align as a state machine: the first loop, one step per row of the       *)
(* outer loop, and the extraction of the result.                           *)

TokenShape(text, t) == [text |-> text, t |-> t]

AlignShapes ==
    {TokenShape(<<"a">>, Word), TokenShape(<<"A">>, Word),
     TokenShape(<<"b">>, Word), TokenShape(<<>>, BlockEnd(2))}

\* Tokens of the given shapes, laid out one after the other from offset 0
WithStarts(shapes) ==
    [i \in 1..Len(shapes) |->
        Token(shapes[i].text,
              len(ConcatTexts(SubSeq(shapes, 1, i - 1))),
              shapes[i].t)]

AlignInputs == {WithStarts(sh) : sh \in SeqsUpTo(AlignShapes, MaxAlignLen)}

AlignInit ==
    /\ left \in AlignInputs
    /\ right \in AlignInputs
    /\ current = <<>>
    /\ rows_done = 0
    /\ operations = <<>>
    /\ apc = "start"
    /\ TokIdle /\ InterIdle /\ RenderIdle /\ MainIdle /\ ScoreIdle
    /\ PickIdle

AlignFirstRow ==
    /\ apc = "start"
    /\ current' = first_row(<<AlignmentState(new, unreachable, unreachable)>>, left)
    /\ apc' = "rows"
    /\ UNCHANGED <<left, right, operations, rows_done>>
    /\ UNCHANGED <<tokVars, interVars, renderVars, mainVars, scoreVars,
                   pickVars>>

AlignRow ==
    /\ apc = "rows"
    /\ rows_done < Len(right)
    /\ current' = next_row(current, right[rows_done + 1], left)
    /\ rows_done' = rows_done + 1
    /\ UNCHANGED <<left, right, operations, apc>>
    /\ UNCHANGED <<tokVars, interVars, renderVars, mainVars, scoreVars,
                   pickVars>>

AlignExtract ==
    /\ apc = "rows"
    /\ rows_done = Len(right)
    /\ operations' = result_of(current)
    /\ apc' = "done"
    /\ UNCHANGED <<left, right, current, rows_done>>
    /\ UNCHANGED <<tokVars, interVars, renderVars, mainVars, scoreVars,
                   pickVars>>

AlignNext == AlignFirstRow \/ AlignRow \/ AlignExtract

SpecAlign == AlignInit /\ [][AlignNext]_vars

-----------------------------------------------------------------------------
(* interleave_tokens as a state machine: the set-up, one step per          *)
(* iteration of the loop over the old alignment, and the final flush.      *)

InterStarts == {0, 1}
InterTokens == {Token(<<"a">>, n, Word) : n \in InterStarts}
SecondaryTokens == {Token(<<" ">>, n, WhiteSpace) : n \in InterStarts}

InterOps ==
    {Mutation(l, r) : l \in InterTokens, r \in InterTokens}
    \cup {InsertLeft(l) : l \in InterTokens}
    \cup {InsertRight(r) : r \in InterTokens}

InterInit ==
    /\ operations \in SeqsUpTo(InterOps, MaxInterLen)
    /\ left \in SeqsUpTo(SecondaryTokens, MaxInterLen)
    /\ right \in SeqsUpTo(SecondaryTokens, MaxInterLen)
    /\ script = operations
    /\ old_alignment = <<>>
    /\ left_iter = <<>>
    /\ right_iter = <<>>
    /\ left_position = None
    /\ right_position = None
    /\ ipc = "start"
    /\ TokIdle /\ AlignIdle /\ RenderIdle /\ MainIdle /\ ScoreIdle
    /\ PickIdle

InterState ==
    Interleaving(old_alignment, left_iter, right_iter, left_position,
                 right_position, operations)

InterSet(st) ==
    /\ old_alignment' = st.old_alignment
    /\ left_iter' = st.left
    /\ right_iter' = st.right
    /\ left_position' = st.left_position
    /\ right_position' = st.right_position
    /\ operations' = st.operations

InterStart ==
    /\ ipc = "start"
    /\ InterSet(interleave_start(operations, left, right))
    /\ ipc' = "loop"
    /\ UNCHANGED <<left, right, script>>
    /\ UNCHANGED <<tokVars, alignVars, renderVars, mainVars, scoreVars,
                   pickVars>>

InterStep ==
    /\ ipc = "loop"
    /\ old_alignment # <<>>
    /\ InterSet(interleave_step(InterState))
    /\ UNCHANGED <<left, right, script, ipc>>
    /\ UNCHANGED <<tokVars, alignVars, renderVars, mainVars, scoreVars,
                   pickVars>>

InterFinish ==
    /\ ipc = "loop"
    /\ old_alignment = <<>>
    /\ InterSet(interleave_finish(InterState))
    /\ ipc' = "done"
    /\ UNCHANGED <<left, right, script>>
    /\ UNCHANGED <<tokVars, alignVars, renderVars, mainVars, scoreVars,
                   pickVars>>

InterNext == InterStart \/ InterStep \/ InterFinish

SpecInter == InterInit /\ [][InterNext]_vars

-----------------------------------------------------------------------------
(* output_lines as a state machine: one step per operation, then the       *)
(* final flush.                                                            *)

RenderWords == {Token(<<"a">>, 0, Word), Token(<<"b", "b">>, 0, Word)}
RenderSpaces ==
    {Token(<<" ">>, 0, WhiteSpace), Token(<<"\n", " ">>, 0, WhiteSpace),
     Token(<<"\n", "\n">>, 0, WhiteSpace)}

RenderOps ==
    {Mutation(l, r) : l \in RenderWords, r \in RenderWords}
    \cup {InsertLeft(l) : l \in RenderWords \cup RenderSpaces}
    \cup {InsertRight(r) : r \in RenderWords \cup RenderSpaces}

RenderInit ==
    /\ operations \in SeqsUpTo(RenderOps, MaxRenderLen)
    /\ colorize \in BOOLEAN
    /\ op_index = 0
    /\ left_buf = DiffLineOutput_new.left
    /\ right_buf = DiffLineOutput_new.right
    /\ equal = DiffLineOutput_new.equal
    /\ out = DiffLineOutput_new.out
    /\ prev_was_space = TRUE
    /\ rpc = "loop"
    /\ left = <<>> /\ right = <<>>
    /\ TokIdle /\ AlignIdle /\ InterIdle /\ MainIdle /\ ScoreIdle
    /\ PickIdle

RenderSet(d) ==
    /\ left_buf' = d.left
    /\ right_buf' = d.right
    /\ equal' = d.equal
    /\ out' = d.out

RenderOperation ==
    /\ rpc = "loop"
    /\ op_index < Len(operations)
    /\ LET st == render_operation(
                    Rendering(DiffLineOutput(left_buf, right_buf, equal, out),
                              prev_was_space),
                    operations[op_index + 1])
       IN /\ RenderSet(st.output)
          /\ prev_was_space' = st.prev_was_space
    /\ op_index' = op_index + 1
    /\ UNCHANGED <<colorize, rpc, sharedVars>>
    /\ UNCHANGED <<tokVars, alignVars, interVars, mainVars, scoreVars,
                   pickVars>>

RenderFlush ==
    /\ rpc = "loop"
    /\ op_index = Len(operations)
    /\ RenderSet(flush(DiffLineOutput(left_buf, right_buf, equal, out)))
    /\ rpc' = "done"
    /\ UNCHANGED <<colorize, op_index, prev_was_space, sharedVars>>
    /\ UNCHANGED <<tokVars, alignVars, interVars, mainVars, scoreVars,
                   pickVars>>

RenderNext == RenderOperation \/ RenderFlush

SpecRender == RenderInit /\ [][RenderNext]_vars

-----------------------------------------------------------------------------
(* The pipeline of main as a state machine, one step per statement.        *)

TextChars == {"a", "b", " ", "\n"}

\* Scenarios S3, S4 (shortened to the same token shapes) and S5 of the
\* specification
Scenarios ==
    {<< <<"a", " ", "b">>, <<"a", " ", " ", "b">> >>,
     << <<"a", ":", "\n", " ", " ", "b">>,
        <<"a", ":", "\n", " ", " ", " ", " ", "b">> >>,
     << <<"a", " ", "b", " ", "c">>, <<"a", " ", "c">> >>}

MainInputs ==
    (SeqsUpTo(TextChars, MaxTextLen) \X SeqsUpTo(TextChars, MaxTextLen))
    \cup Scenarios

MainInit ==
    /\ \E texts \in MainInputs : left_text = texts[1] /\ right_text = texts[2]
    /\ colorize = FALSE
    /\ left_tokens = <<>> /\ left_whitespaces = <<>>
    /\ right_tokens = <<>> /\ right_whitespaces = <<>>
    /\ operations = <<>>
    /\ out = <<>>
    /\ mpc = "read"
    /\ left = <<>> /\ right = <<>>
    /\ op_index = 0 /\ left_buf = <<>> /\ right_buf = <<>> /\ equal = TRUE
    /\ prev_was_space = TRUE /\ rpc = "idle"
    /\ TokIdle /\ AlignIdle /\ InterIdle /\ ScoreIdle
    /\ PickIdle

MainFrame ==
    /\ UNCHANGED <<left_text, right_text, left, right>>
    /\ UNCHANGED <<op_index, left_buf, right_buf, equal, prev_was_space, rpc>>
    /\ UNCHANGED <<tokVars, alignVars, interVars, scoreVars, pickVars>>

MainTokenize ==
    /\ mpc = "read"
    /\ left_tokens' = partition(collect(parse(left_text))).significant
    /\ left_whitespaces' = partition(collect(parse(left_text))).whitespaces
    /\ right_tokens' = partition(collect(parse(right_text))).significant
    /\ right_whitespaces' = partition(collect(parse(right_text))).whitespaces
    /\ mpc' = "tokenized"
    /\ UNCHANGED <<operations, out>>
    /\ UNCHANGED colorize
    /\ MainFrame

MainAlign ==
    /\ mpc = "tokenized"
    /\ operations' = align(left_tokens, right_tokens)
    /\ mpc' = "aligned"
    /\ UNCHANGED <<left_tokens, left_whitespaces, right_tokens,
                   right_whitespaces, out>>
    /\ UNCHANGED colorize
    /\ MainFrame

MainInterleave ==
    /\ mpc = "aligned"
    /\ operations' = interleave_tokens(operations, left_whitespaces,
                                       right_whitespaces)
    /\ mpc' = "interleaved"
    \* the environment as the renderer will find it: it is read by nothing
    \* before output_lines
    /\ colorize' \in BOOLEAN
    /\ UNCHANGED <<left_tokens, left_whitespaces, right_tokens,
                   right_whitespaces, out>>
    /\ MainFrame

MainPretty ==
    /\ mpc = "interleaved"
    /\ out' = output_lines(operations)
    /\ mpc' = "done"
    /\ UNCHANGED <<left_tokens, left_whitespaces, right_tokens,
                   right_whitespaces, operations, colorize>>
    /\ MainFrame

MainNext == MainTokenize \/ MainAlign \/ MainInterleave \/ MainPretty

SpecMain == MainInit /\ [][MainNext]_vars

-----------------------------------------------------------------------------
(* The scores as functions of their arguments: one call per behaviour.     *)

ScoreTokens ==
    {Token(<<"a">>, 0, Word), Token(<<"A">>, 0, Word), Token(<<"b">>, 0, Word),
     Token(<<"+">>, 0, SpecialCharacter), Token(<<" ">>, 0, WhiteSpace)}
    \cup {Token(<<>>, 0, BlockStart(n)) : n \in 0..MaxIndent}
    \cup {Token(<<>>, 0, BlockEnd(n)) : n \in 0..MaxIndent}

ScoreInit ==
    /\ self_token \in ScoreTokens
    /\ other_token \in ScoreTokens
    /\ same_flag \in BOOLEAN
    /\ returned = None
    /\ spc = "start"
    /\ TokIdle /\ SharedIdle /\ AlignIdle /\ InterIdle /\ RenderIdle /\ MainIdle
    /\ PickIdle

ScoreMutation ==
    /\ spc = "start"
    /\ returned' = Some(mutation_score(self_token, other_token))
    /\ spc' = "mutation_score"
    /\ UNCHANGED <<self_token, other_token, same_flag>>
    /\ UNCHANGED <<tokVars, sharedVars, alignVars, interVars, renderVars,
                   mainVars, pickVars>>

ScoreInsert ==
    /\ spc = "start"
    /\ returned' = Some(insert_score(self_token, same_flag))
    /\ spc' = "insert_score"
    /\ UNCHANGED <<self_token, other_token, same_flag>>
    /\ UNCHANGED <<tokVars, sharedVars, alignVars, interVars, renderVars,
                   mainVars, pickVars>>

ScoreNext == ScoreMutation \/ ScoreInsert

SpecScore == ScoreInit /\ [][ScoreNext]_vars

-----------------------------------------------------------------------------
(* pick_best and extract_best as functions of three scores: one call per   *)
(* behaviour, on a cell whose three layers hold the scores and three       *)
(* different paths.                                                        *)

PickCosts == (0..MaxCost) \cup {INFINITY}

PickToken == Token(<<"a">>, 0, Word)
PickPayload == InsertLeft(Token(<<"b">>, 1, Word))

PickCell ==
    AlignmentState(
        AlignmentData(mutation_cost, Node(Mutation(PickToken, PickToken), End)),
        AlignmentData(insert_left_cost, Node(InsertLeft(PickToken), End)),
        AlignmentData(insert_right_cost, Node(InsertRight(PickToken), End)))

PickInit ==
    /\ mutation_cost \in PickCosts
    /\ insert_left_cost \in PickCosts
    /\ insert_right_cost \in PickCosts
    /\ picked = None
    /\ ppc = "start"
    /\ TokIdle /\ SharedIdle /\ AlignIdle /\ InterIdle /\ RenderIdle /\ MainIdle
    /\ ScoreIdle

PickBest ==
    /\ ppc = "start"
    /\ picked' = Some(pick_best(PickCell, PickPayload, mutation_cost,
                                insert_left_cost, insert_right_cost))
    /\ ppc' = "pick_best"
    /\ UNCHANGED <<mutation_cost, insert_left_cost, insert_right_cost>>
    /\ UNCHANGED <<tokVars, sharedVars, alignVars, interVars, renderVars,
                   mainVars, scoreVars>>

ExtractBest ==
    /\ ppc = "start"
    /\ picked' = Some(extract_best(PickCell))
    /\ ppc' = "extract_best"
    /\ UNCHANGED <<mutation_cost, insert_left_cost, insert_right_cost>>
    /\ UNCHANGED <<tokVars, sharedVars, alignVars, interVars, renderVars,
                   mainVars, scoreVars>>

PickNext == PickBest \/ ExtractBest

SpecPick == PickInit /\ [][PickNext]_vars

-----------------------------------------------------------------------------
(* Properties of the tokenizer.                                            *)

NonBlock(toks) == SelectSeq(toks, LAMBDA tok : ~IsBlock(tok))

\* The code points of s that lie before byte offset pos
BytePrefix(s, pos) ==
    SubSeq(s, 1, Cardinality({i \in 1..Len(s) : len(SubSeq(s, 1, i)) <= pos}))

\* C5: the texts of the non-block tokens yielded so far, concatenated in
\* order, are the source up to the byte reached, hence the whole source once
\* the parser is exhausted; every block marker yielded or queued has empty
\* text.
C5_TokenizerTotality ==
    /\ tpc \in {"iterating", "exhausted"} =>
          ConcatTexts(NonBlock(yielded)) = BytePrefix(source, position)
    /\ tpc = "exhausted" => ConcatTexts(NonBlock(yielded)) = source
    /\ \A i \in 1..Len(yielded) : IsBlock(yielded[i]) => yielded[i].text = <<>>
    /\ \A i \in 1..Len(next_tokens) :
          IsBlock(next_tokens[i]) /\ next_tokens[i].text = <<>>

C5_Witness ==
    /\ tpc = "exhausted"
    /\ Len(source) = 4
    /\ \E i \in 1..Len(yielded) : IsBlock(yielded[i])
    /\ \E i \in 1..Len(source) : source[i] = "nbsp"

\* Byte length of what follows the final newline of a text
IndentOf(text) ==
    LET nl == {i \in 1..Len(text) : text[i] = "\n"}
        k == CHOOSE i \in nl : \A j \in nl : j <= i
    IN len(SubSeq(text, k + 1, Len(text)))

HasNewline(text) == \E i \in 1..Len(text) : text[i] = "\n"

\* A step of next() that read a whitespace token from the source
C6_WhitespaceStep ==
    /\ last_item' # None
    /\ next_tokens = <<>>
    /\ unwrap(last_item').t = WhiteSpace

C6_Marks(tok) == HasNewline(tok.text) /\ IndentOf(tok.text) # prev_indentation

\* C6: a whitespace token queues a block marker exactly when it contains a
\* newline and the byte length after its final newline differs from
\* prev_indentation; the marker is BlockStart(new) when the indentation grew
\* and BlockEnd(previous) when it shrank, starts where the whitespace token
\* ends, and prev_indentation becomes the new indentation; without a marker
\* prev_indentation is unchanged; a queued marker is the very next item, and
\* no other token queues a marker.
C6_Step ==
    /\ C6_WhitespaceStep =>
          LET tok == unwrap(last_item')
              grown == IndentOf(tok.text)
          IN /\ (next_tokens' # <<>>) <=> C6_Marks(tok)
             /\ C6_Marks(tok) =>
                   /\ next_tokens' =
                        <<Token(<<>>, tok.start + len(tok.text),
                                IF grown > prev_indentation
                                THEN BlockStart(grown)
                                ELSE BlockEnd(prev_indentation))>>
                   /\ prev_indentation' = grown
             /\ ~C6_Marks(tok) => prev_indentation' = prev_indentation
    /\ next_tokens # <<>> =>
          /\ last_item' = Some(Head(next_tokens))
          /\ next_tokens' = <<>>
          /\ prev_indentation' = prev_indentation
    /\ ~C6_WhitespaceStep =>
          /\ next_tokens' = <<>>
          /\ prev_indentation' = prev_indentation

C6_BlockMarkerInjection == [][C6_Step]_vars

C6_Witness ==
    /\ last_item # None
    /\ unwrap(last_item).t.kind = "BlockEnd"
    /\ \E i \in 1..Len(yielded) : yielded[i].t.kind = "BlockStart"

-----------------------------------------------------------------------------
(* Properties of align.                                                    *)

\* Cost of one op under the policy, given the kind of the op before it
OpCost(o, prev) ==
    CASE o.op = "Mutation" -> mutation_score(unwrap(o.left), unwrap(o.right))
      [] o.op = "InsertLeft" -> insert_score(unwrap(o.left), prev = "InsertLeft")
      [] o.op = "InsertRight" -> insert_score(unwrap(o.right), prev = "InsertRight")

RECURSIVE CostFrom(_, _)
CostFrom(ops, prev) ==
    IF ops = <<>> THEN 0
    ELSE OpCost(Head(ops), prev) + CostFrom(Tail(ops), Head(ops).op)

ScriptCost(ops) == CostFrom(ops, "none")

SetMin(S) == CHOOSE x \in S : \A y \in S : x <= y

\* Least cost of any script that consumes exactly ls and rs after an op of
\* kind prev: every script is tried, one op at a time
RECURSIVE MinCostFrom(_, _, _)
MinCostFrom(ls, rs, prev) ==
    IF ls = <<>> /\ rs = <<>> THEN 0
    ELSE SetMin(
        (IF ls # <<>> /\ rs # <<>>
         THEN {mutation_score(Head(ls), Head(rs))
                 + MinCostFrom(Tail(ls), Tail(rs), "Mutation")}
         ELSE {})
        \cup
        (IF ls # <<>>
         THEN {insert_score(Head(ls), prev = "InsertLeft")
                 + MinCostFrom(Tail(ls), rs, "InsertLeft")}
         ELSE {})
        \cup
        (IF rs # <<>>
         THEN {insert_score(Head(rs), prev = "InsertRight")
                 + MinCostFrom(ls, Tail(rs), "InsertRight")}
         ELSE {}))

RECURSIVE LeftOf(_)
LeftOf(ops) ==
    IF ops = <<>> THEN <<>> ELSE Head(ops).left \o LeftOf(Tail(ops))

RECURSIVE RightOf(_)
RightOf(ops) ==
    IF ops = <<>> THEN <<>> ELSE Head(ops).right \o RightOf(Tail(ops))

WellFormedOp(o) ==
    \/ o.op = "Mutation" /\ o.left # None /\ o.right # None
    \/ o.op = "InsertLeft" /\ o.left # None /\ o.right = None
    \/ o.op = "InsertRight" /\ o.left = None /\ o.right # None

\* C1: the cost of the script align returns, each insert charged as an
\* extension exactly when the op before it is an insert on the same side, is
\* the least cost of any edit script whose projections are left and right.
C1_CostOptimality ==
    apc = "done" => ScriptCost(operations) = MinCostFrom(left, right, "none")

C1_Witness ==
    /\ apc = "done"
    /\ \E i \in 1..(Len(operations) - 1) :
          operations[i].op = "InsertLeft" /\ operations[i + 1].op = "InsertLeft"
    /\ \E i \in 1..Len(operations) :
          /\ operations[i].op = "Mutation"
          /\ unwrap(operations[i].left).text # unwrap(operations[i].right).text
    /\ \E i \in 1..Len(operations) :
          operations[i].op = "InsertRight" /\ IsBlock(unwrap(operations[i].right))

\* C2: the left tokens of the Mutation and InsertLeft ops of the returned
\* script, in script order, are the left input, and the right tokens of its
\* Mutation and InsertRight ops are the right input.
C2_RoundTrip ==
    apc = "done" =>
        /\ \A i \in 1..Len(operations) : WellFormedOp(operations[i])
        /\ LeftOf(operations) = left
        /\ RightOf(operations) = right

C2_Witness ==
    /\ apc = "done"
    /\ Len(left) = 3
    /\ Len(right) = 3
    /\ {operations[i].op : i \in 1..Len(operations)} =
          {"Mutation", "InsertLeft", "InsertRight"}

\* C3: for token-wise equal inputs the script is one Mutation{left[i],
\* right[i]} per position, without any insert, and costs 0.
C3_IdenticalInputs ==
    (apc = "done" /\ left = right) =>
        /\ operations = [i \in 1..Len(left) |-> Mutation(left[i], right[i])]
        /\ ScriptCost(operations) = 0

C3_Witness ==
    /\ apc = "done"
    /\ left = right
    /\ Len(left) = 3
    /\ IsBlock(left[2])
    /\ left[1].text = left[3].text

\* C4: with an empty left the script is one InsertRight per right token, in
\* order; with an empty right it is one InsertLeft per left token, in order;
\* with both empty it is empty.
C4_EmptySide ==
    apc = "done" =>
        /\ left = <<>> =>
              operations = [i \in 1..Len(right) |-> InsertRight(right[i])]
        /\ right = <<>> =>
              operations = [i \in 1..Len(left) |-> InsertLeft(left[i])]
        /\ (left = <<>> /\ right = <<>>) => operations = <<>>

C4_Witness ==
    /\ apc = "done"
    /\ left = <<>>
    /\ Len(right) = 3
    /\ operations # <<>>

-----------------------------------------------------------------------------
(* Properties of the scores.                                               *)

\* C7: for two BlockStart tokens, or two BlockEnd tokens, with indent fields
\* i and j, mutation_score returns |i - j| (10 * |i - j| tenths); the
\* kind-mismatch penalty 100 (1000 tenths) is returned only when the kinds
\* differ.
C7_BlockMarkerScore ==
    spc = "mutation_score" =>
        /\ (IsBlock(self_token) /\ self_token.t.kind = other_token.t.kind) =>
              unwrap(returned) =
                  10 * abs_diff(self_token.t.indent, other_token.t.indent)
        /\ unwrap(returned) = 1000 => self_token.t.kind # other_token.t.kind

-----------------------------------------------------------------------------
(* Properties of interleave_tokens.                                        *)

\* out is script with the InsertLeft ops of lefts and the InsertRight ops of
\* rights woven in, each of the three in its own order
RECURSIVE IsMerge(_, _, _, _)
IsMerge(ops, orig, lefts, rights) ==
    IF ops = <<>> THEN orig = <<>> /\ lefts = <<>> /\ rights = <<>>
    ELSE \/ /\ orig # <<>>
            /\ Head(ops) = Head(orig)
            /\ IsMerge(Tail(ops), Tail(orig), lefts, rights)
         \/ /\ lefts # <<>>
            /\ Head(ops) = InsertLeft(Head(lefts))
            /\ IsMerge(Tail(ops), orig, Tail(lefts), rights)
         \/ /\ rights # <<>>
            /\ Head(ops) = InsertRight(Head(rights))
            /\ IsMerge(Tail(ops), orig, lefts, Tail(rights))

\* C10: the output has |script| + |left| + |right| ops: the ops of the
\* script unchanged and in their order, every left secondary token once as an
\* InsertLeft and every right secondary token once as an InsertRight, each
\* side in its own order.
C10_InterleaveComplete ==
    ipc = "done" =>
        /\ Len(operations) = Len(script) + Len(left) + Len(right)
        /\ IsMerge(operations, script, left, right)

C10_Witness ==
    /\ ipc = "done"
    /\ Len(script) = 2 /\ Len(left) = 2 /\ Len(right) = 2
    /\ operations[1].op = "Mutation"
    /\ operations[2] = InsertRight(right[1])
    /\ operations[3] = InsertLeft(left[1])
    /\ operations[6] = InsertLeft(left[2])

-----------------------------------------------------------------------------
(* Properties of the pipeline.                                             *)

\* A Mutation whose two texts are byte-equal, or an insert of whitespace
PlainOp(o) ==
    \/ o.op = "Mutation" /\ unwrap(o.left).text = unwrap(o.right).text
    \/ o.op = "InsertLeft" /\ token_is_whitespace(unwrap(o.left))
    \/ o.op = "InsertRight" /\ token_is_whitespace(unwrap(o.right))

\* C8: whitespace inserted on the right does not mark a line as changed: a
\* script of byte-equal Mutations and whitespace inserts is rendered as Same
\* lines only, and the texts "a b" and "a  b" give the one line Same "a  b".
C8_WhitespaceRendersEqual ==
    mpc = "done" =>
        /\ (\A i \in 1..Len(operations) : PlainOp(operations[i])) =>
              \A k \in 1..Len(out) : out[k].type = "Same"
        /\ (left_text = <<"a", " ", "b">> /\ right_text = <<"a", " ", " ", "b">>) =>
              out = <<Same(<<"a", " ", " ", "b">>)>>

\* C9: after interleaving operations that align produced from one
\* tokenization of each text, with the whitespace tokens of the same
\* tokenization, the left tokens of the ops are all the tokens of the left
\* text in their order, and the right tokens all those of the right text.
C9_InterleaveOrder ==
    mpc \in {"interleaved", "done"} =>
        /\ LeftOf(operations) = collect(parse(left_text))
        /\ RightOf(operations) = collect(parse(right_text))

C9_Witness ==
    /\ mpc = "interleaved"
    /\ left_whitespaces # <<>>
    /\ right_whitespaces # <<>>
    /\ \E i \in 1..Len(left_tokens) : IsBlock(left_tokens[i])
    /\ \E i \in 1..(Len(operations) - 1) :
          /\ operations[i].op = "InsertLeft"
          /\ token_is_whitespace(unwrap(operations[i].left))
          /\ operations[i + 1].op = "Mutation"

\* The kind of an op and the texts of its tokens
OpTexts(o) ==
    [op |-> o.op,
     left |-> IF o.left = None THEN None ELSE Some(unwrap(o.left).text),
     right |-> IF o.right = None THEN None ELSE Some(unwrap(o.right).text)]

ScenarioS5 ==
    /\ left_text = <<"a", " ", "b", " ", "c">>
    /\ right_text = <<"a", " ", "c">>

\* C11 as stated: for "a b c" and "a c" the script after alignment and
\* interleaving is exactly Mutation{a,a}, InsertLeft{b}, InsertLeft{space},
\* Mutation{c,c}.
C11_ScenarioS5Script ==
    (mpc \in {"interleaved", "done"} /\ ScenarioS5) =>
        [i \in 1..Len(operations) |-> OpTexts(operations[i])] =
            <<[op |-> "Mutation", left |-> Some(<<"a">>), right |-> Some(<<"a">>)],
              [op |-> "InsertLeft", left |-> Some(<<"b">>), right |-> None],
              [op |-> "InsertLeft", left |-> Some(<<" ">>), right |-> None],
              [op |-> "Mutation", left |-> Some(<<"c">>), right |-> Some(<<"c">>)]>>

\* C11 amended: for "a b c" and "a c" the aligned script of the significant
\* tokens is Mutation{a,a}, InsertLeft{b}, Mutation{c,c}, and after
\* interleaving every whitespace token of both sides is in the script:
\* Mutation{a,a}, InsertLeft{space at 1}, InsertLeft{b},
\* InsertRight{space at 1}, InsertLeft{space at 3}, Mutation{c,c}.
C11_ScenarioS5Interleaved ==
    ScenarioS5 =>
        /\ mpc = "aligned" =>
              operations =
                  <<Mutation(Token(<<"a">>, 0, Word), Token(<<"a">>, 0, Word)),
                    InsertLeft(Token(<<"b">>, 2, Word)),
                    Mutation(Token(<<"c">>, 4, Word), Token(<<"c">>, 2, Word))>>
        /\ mpc \in {"interleaved", "done"} =>
              operations =
                  <<Mutation(Token(<<"a">>, 0, Word), Token(<<"a">>, 0, Word)),
                    InsertLeft(Token(<<" ">>, 1, WhiteSpace)),
                    InsertLeft(Token(<<"b">>, 2, Word)),
                    InsertRight(Token(<<" ">>, 1, WhiteSpace)),
                    InsertLeft(Token(<<" ">>, 3, WhiteSpace)),
                    Mutation(Token(<<"c">>, 4, Word), Token(<<"c">>, 2, Word))>>

C11_Witness ==
    /\ mpc = "interleaved"
    /\ ScenarioS5
    /\ Len(operations) = 6

-----------------------------------------------------------------------------
(* Further properties of the tokenizer.                                    *)

\* C12: in the sequence yielded so far the start offsets never decrease; the
\* first non-block token starts at 0 and each later one starts where the
\* non-block token before it ended; two tokens have the same start only when
\* they are neighbours, the first a block marker of empty text and the second
\* the token that follows it.
C12_TokenOffsets ==
    LET nb == NonBlock(yielded)
    IN /\ \A i \in 1..(Len(yielded) - 1) :
             yielded[i].start <= yielded[i + 1].start
       /\ nb # <<>> => nb[1].start = 0
       /\ \A k \in 1..(Len(nb) - 1) :
             nb[k + 1].start = nb[k].start + len(nb[k].text)
       /\ \A i, j \in 1..Len(yielded) :
             (i < j /\ yielded[i].start = yielded[j].start) =>
                 /\ j = i + 1
                 /\ IsBlock(yielded[i])
                 /\ yielded[i].text = <<>>
                 /\ ~IsBlock(yielded[j])

C12_Witness ==
    /\ tpc = "exhausted"
    /\ \E i \in 1..(Len(yielded) - 1) :
          /\ IsBlock(yielded[i])
          /\ yielded[i].start = yielded[i + 1].start
          /\ yielded[i].start > i
    /\ Len(NonBlock(yielded)) >= 2

\* The class of a code point, read off the alphabet
ClassOf(c) ==
    CASE c \in WhitespaceChars -> "WhiteSpace"
      [] c \in WordChars -> "Word"
      [] c \in BlockChars -> "BlockChar"
      [] OTHER -> "Other"

\* The code point of the source that follows a token, if any
FollowerOf(tok) ==
    LET k == Len(BytePrefix(source, tok.start + len(tok.text)))
    IN IF k < Len(source) THEN Some(source[k + 1]) ELSE None

\* C13: every non-block token is a non-empty run of code points of one
\* class; a Whitespace, Word or other-character run is maximal, the code
\* point after it being of another class, so that no two consecutive
\* non-block tokens are both Whitespace, both Word or both runs of other
\* characters; a run of other characters is a SpecialCharacter and holds no
\* block-char; each block-char is a SpecialCharacter token of one code point.
C13_RunAccumulation ==
    LET nb == NonBlock(yielded)
    IN /\ \A k \in 1..Len(nb) :
             LET tok == nb[k]
                 cls == ClassOf(tok.text[1])
             IN /\ tok.text # <<>>
                /\ \A i \in 1..Len(tok.text) : ClassOf(tok.text[i]) = cls
                /\ tok.t = CASE cls = "WhiteSpace" -> WhiteSpace
                             [] cls = "Word" -> Word
                             [] OTHER -> SpecialCharacter
                /\ cls = "BlockChar" => Len(tok.text) = 1
                /\ (cls # "BlockChar" /\ FollowerOf(tok) # None) =>
                      ClassOf(unwrap(FollowerOf(tok))) # cls
       /\ \A k \in 1..(Len(nb) - 1) :
             ClassOf(nb[k].text[1]) = ClassOf(nb[k + 1].text[1]) =>
                 ClassOf(nb[k].text[1]) = "BlockChar"

C13_Witness ==
    /\ tpc = "exhausted"
    /\ \E k \in 1..(Len(yielded) - 2) :
          /\ yielded[k].text = <<"+", "+">>
          /\ yielded[k + 1].text = <<"(">>
          /\ yielded[k + 2].text = <<"(">>

\* What the parser holds between two calls of next()
C14_Bounds ==
    /\ Len(yielded) <= 2 * Len(source)
    /\ position <= len(source)
    /\ is_char_boundary(source, position)
    /\ Len(next_tokens) <= 1
    /\ tpc = "exhausted" =>
          LET p == TokenParser(source, position, next_tokens, prev_indentation)
          IN /\ last_item = None
             /\ next(p).item = None
             /\ next(p).parser = p

\* What is left to do: two per byte still to read, one per queued marker
C14_Measure == 2 * (len(source) - position) + Len(next_tokens)

\* A call of next(): one that reads from the source moves position forward
\* by at least one byte, one that pops the queue or finds the end leaves it;
\* a call returns an item exactly when something is left to do, and then
\* less is left to do afterwards
C14_Step ==
    /\ (next_tokens = <<>> /\ position < len(source)) =>
          /\ position' > position
          /\ position' <= len(source)
    /\ (next_tokens # <<>> \/ position >= len(source)) => position' = position
    /\ (last_item' # None) <=> (C14_Measure > 0)
    /\ (last_item' # None) => C14_Measure' < C14_Measure

\* C14: the items yielded are at most two per code point of the source; a
\* call that reads from the source advances position by at least one byte
\* and never past the end; at most one block marker is queued; every call
\* that returns an item leaves strictly less to do, so that the
\* end-of-sequence value is returned after finitely many calls, and once it
\* is returned the next call returns it again and changes nothing.
C14_TokenizerTermination ==
    /\ [](C14_Bounds /\ C14_Measure >= 0)
    /\ [][C14_Step]_vars

C14_Witness ==
    /\ tpc = "exhausted"
    /\ Len(yielded) = 4
    /\ next_tokens = <<>>
    /\ position = len(source)
    /\ position > Len(source)
    /\ \E i \in 1..Len(yielded) : IsBlock(yielded[i])

-----------------------------------------------------------------------------
(* Tie-breaking of the aligner.                                            *)

Min3(a, b, c) == SetMin({a, b, c})

\* The layer of PickCell whose path an AlignmentData continues or is
PickedLayer(path) ==
    CASE path = PickCell.last_was_mutation.path -> "Mutation"
      [] path = PickCell.last_was_insert_left.path -> "InsertLeft"
      [] path = PickCell.last_was_insert_right.path -> "InsertRight"

\* C15: pick_best returns the payload on top of the path of one predecessor
\* layer, with that layer's candidate score, which is the least of the
\* three; the insert-left layer is chosen only when its candidate is
\* strictly below both others, the insert-right layer only when its
\* candidate is strictly below the mutation candidate and not above the
\* insert-left one; when the two inserts tie, insert-right is chosen exactly
\* when it is strictly below mutation.
C15_PickBestTieBreak ==
    ppc = "pick_best" =>
        LET d == unwrap(picked)
            layer == PickedLayer(Tail(d.path))
        IN /\ Head(d.path) = PickPayload
           /\ d.score = Min3(mutation_cost, insert_left_cost, insert_right_cost)
           /\ d.score = CASE layer = "Mutation" -> mutation_cost
                          [] layer = "InsertLeft" -> insert_left_cost
                          [] layer = "InsertRight" -> insert_right_cost
           /\ layer = "InsertLeft" =>
                 /\ insert_left_cost < mutation_cost
                 /\ insert_left_cost < insert_right_cost
           /\ layer = "InsertRight" =>
                 /\ insert_right_cost < mutation_cost
                 /\ insert_right_cost <= insert_left_cost
           /\ insert_left_cost = insert_right_cost =>
                 /\ layer # "InsertLeft"
                 /\ (layer = "InsertRight") <=> (insert_right_cost < mutation_cost)

C15_Witness ==
    /\ ppc = "pick_best"
    /\ insert_left_cost = insert_right_cost
    /\ insert_right_cost < mutation_cost
    /\ mutation_cost < INFINITY
    /\ Tail(unwrap(picked).path) = PickCell.last_was_insert_right.path

\* The layer pick_best takes its predecessor from, for three scores
PickBestKind(m, il, ir) ==
    PickedLayer(Tail(pick_best(PickCell, PickPayload, m, il, ir).path))

\* C16: the script align returns ends with the op of a layer of the final
\* cell whose score is the least of the three, and that layer is the one
\* pick_best selects for the three layer scores.
C16_TerminationTieBreak ==
    (apc = "done" /\ operations # <<>>) =>
        LET cell == current[Len(current)]
            m == cell.last_was_mutation.score
            il == cell.last_was_insert_left.score
            ir == cell.last_was_insert_right.score
            kind == operations[Len(operations)].op
        IN /\ Min3(m, il, ir) =
                 CASE kind = "Mutation" -> m
                   [] kind = "InsertLeft" -> il
                   [] kind = "InsertRight" -> ir
           /\ kind = PickBestKind(m, il, ir)

-----------------------------------------------------------------------------
(* The layers of the cells of align.                                       *)

\* One layer of cell (r, l): unreachable, or a path that ends with an op of
\* the layer's kind, consumes left[0..l] and right[0..r], and costs what
\* the layer stores
C17_Layer(data, kind, r, l) ==
    \/ data.score = INFINITY
    \/ /\ data.path # End
       /\ Head(data.path).op = kind
       /\ \A i \in 1..Len(data.path) : WellFormedOp(data.path[i])
       /\ LeftOf(extract_path(data.path)) = SubSeq(left, 1, l)
       /\ RightOf(extract_path(data.path)) = SubSeq(right, 1, r)
       /\ data.score = ScriptCost(extract_path(data.path))

\* C17: in the row align has just computed, each finite layer of each cell
\* (r, l) holds a path that ends with the layer's kind, whose left
\* projection is left[0..l] and right projection right[0..r], and whose
\* stored score is the policy cost of that path (an insert is an extension
\* exactly when the op before it is an insert on the same side); cell (0,0)
\* has mutation score 0 with the empty path and no other finite layer; in
\* row 0 only the insert-left layer is finite and in column 0 only the
\* insert-right layer.
C17_LayerInvariant ==
    apc \in {"rows", "done"} =>
        /\ Len(current) = Len(left) + 1
        /\ \A c \in 1..Len(current) :
              LET cell == current[c]
                  r == rows_done
                  l == c - 1
              IN IF r = 0 /\ l = 0
                 THEN cell = AlignmentState(AlignmentData(0, End),
                                            AlignmentData(INFINITY, End),
                                            AlignmentData(INFINITY, End))
                 ELSE /\ C17_Layer(cell.last_was_mutation, "Mutation", r, l)
                      /\ C17_Layer(cell.last_was_insert_left, "InsertLeft", r, l)
                      /\ C17_Layer(cell.last_was_insert_right, "InsertRight", r, l)
                      /\ r = 0 =>
                            /\ cell.last_was_mutation.score = INFINITY
                            /\ cell.last_was_insert_left.score < INFINITY
                            /\ cell.last_was_insert_right.score = INFINITY
                      /\ l = 0 =>
                            /\ cell.last_was_mutation.score = INFINITY
                            /\ cell.last_was_insert_left.score = INFINITY
                            /\ cell.last_was_insert_right.score < INFINITY
                      /\ (r > 0 /\ l > 0) =>
                            /\ cell.last_was_mutation.score < INFINITY
                            /\ cell.last_was_insert_left.score < INFINITY
                            /\ cell.last_was_insert_right.score < INFINITY

C17_Witness ==
    /\ apc = "rows"
    /\ rows_done = 2
    /\ Len(left) = 3
    /\ LET cell == current[Len(current)]
       IN /\ cell.last_was_insert_left.score < INFINITY
          /\ Len(cell.last_was_insert_left.path) >= 2
          /\ cell.last_was_insert_left.path[2].op = "InsertLeft"
          /\ Head(cell.last_was_insert_right.path).op = "InsertRight"
          /\ cell.last_was_mutation.score < INFINITY

-----------------------------------------------------------------------------
(* The order in which interleave_tokens emits.                             *)

SortedByStart(toks) ==
    \A i \in 1..(Len(toks) - 1) : toks[i].start <= toks[i + 1].start

\* What one side gives up in a step: taken tokens are a prefix of pending,
\* each starting strictly before the anchor; the token left at the head
\* does not start before the anchor, and if pending is sorted by start no
\* token left does; without an anchor nothing is taken
C18_Side(pending, rest, anchor) ==
    LET n == Len(pending) - Len(rest)
    IN /\ n >= 0
       /\ rest = SubSeq(pending, n + 1, Len(pending))
       /\ \A i \in 1..n :
             anchor # None /\ pending[i].start < unwrap(anchor).start
       /\ (rest # <<>> /\ anchor # None) =>
             Head(rest).start >= unwrap(anchor).start
       /\ (SortedByStart(pending) /\ anchor # None) =>
             \A i \in 1..Len(rest) : rest[i].start >= unwrap(anchor).start

\* The ops a step appends to operations
C18_Added == SubSeq(operations', Len(operations) + 1, Len(operations'))

\* One iteration for the op a of the script: the anchors become the tokens
\* of a where it has them, the right tokens before the right anchor are
\* emitted first, then the left tokens before the left anchor, then a
C18_LoopStep ==
    LET a == script[Len(script) - Len(old_alignment) + 1]
        right_anchor == IF a.right # None THEN a.right ELSE right_position
        left_anchor == IF a.left # None THEN a.left ELSE left_position
        nr == Len(right_iter) - Len(right_iter')
        nl == Len(left_iter) - Len(left_iter')
    IN /\ right_position' = right_anchor
       /\ left_position' = left_anchor
       /\ C18_Side(right_iter, right_iter', right_anchor)
       /\ C18_Side(left_iter, left_iter', left_anchor)
       /\ C18_Added =
             [i \in 1..nr |-> InsertRight(right_iter[i])]
             \o [i \in 1..nl |-> InsertLeft(left_iter[i])]
             \o <<a>>

\* After the script: what remains of right, then what remains of left
C18_FinishStep ==
    /\ C18_Added =
          [i \in 1..Len(right_iter) |-> InsertRight(right_iter[i])]
          \o [i \in 1..Len(left_iter) |-> InsertLeft(left_iter[i])]
    /\ right_iter' = <<>>
    /\ left_iter' = <<>>

\* C18: before each op of the script is re-emitted, the pending right
\* secondary tokens that start strictly before the most recent right anchor
\* are emitted as InsertRight, then the pending left secondary tokens that
\* start strictly before the most recent left anchor as InsertLeft; a token
\* at the head that starts at or after its side's anchor is kept; after the
\* script is exhausted all remaining right tokens are emitted, then all
\* remaining left tokens.
C18_EmissionOrder ==
    [][/\ (ipc = "loop" /\ old_alignment # <<>>) => C18_LoopStep
       /\ (ipc = "loop" /\ old_alignment = <<>>) => C18_FinishStep]_vars

C18_Witness ==
    /\ ipc = "loop"
    /\ Len(script) = 2
    /\ old_alignment = <<>>
    /\ Len(operations) = 4
    /\ operations[1].op = "InsertRight"
    /\ operations[2].op = "InsertLeft"
    /\ right_iter # <<>>
    /\ left_iter # <<>>
    /\ Head(right_iter).start = unwrap(right_position).start

-----------------------------------------------------------------------------
(* Properties of the renderer.                                             *)

HasInk(buf) == \E i \in 1..Len(buf) : buf[i] \notin WhitespaceChars

\* The line a flush emits for the buffers and the flag it finds
C19_Line(l, r, e) ==
    IF e THEN Same(r)
    ELSE Change(IF HasInk(l) THEN Some(l) ELSE None,
                IF HasInk(r) THEN Some(r) ELSE None)

\* The newline-free pieces of a text, in order
C19_Pieces(text) ==
    LET nl == {i \in 1..Len(text) : text[i] = "\n"}
        cut(k) == IF k = 0 THEN 0
                  ELSE IF k = Cardinality(nl) + 1 THEN Len(text) + 1
                  ELSE CHOOSE i \in nl : Cardinality({j \in nl : j <= i}) = k
    IN [k \in 1..(Cardinality(nl) + 1) |->
           SubSeq(text, cut(k - 1) + 1, cut(k) - 1)]

\* The final flush: one line from the buffers, which are then empty
C19_FinalFlush ==
    /\ out' = Append(out, C19_Line(left_buf, right_buf, equal))
    /\ left_buf' = <<>>
    /\ right_buf' = <<>>
    /\ equal' = TRUE

\* An operation flushes once per newline of an inserted right whitespace
\* token and not otherwise; the first line holds what the buffers held and
\* the piece before the first newline, each later line only its own piece
\* since the buffers were emptied, and the last piece stays in the buffers
C19_Operation ==
    LET o == operations[op_index + 1]
    IN IF o.op = "InsertRight" /\ unwrap(o.right).t = WhiteSpace
          /\ \E i \in 1..Len(unwrap(o.right).text) : unwrap(o.right).text[i] = "\n"
       THEN LET pieces == C19_Pieces(unwrap(o.right).text)
                n == Len(pieces)
            IN /\ Len(out') = Len(out) + n - 1
               /\ SubSeq(out', 1, Len(out)) = out
               /\ out'[Len(out) + 1] =
                     C19_Line(left_buf \o pieces[1], right_buf \o pieces[1], FALSE)
               /\ \A k \in 2..(n - 1) :
                     out'[Len(out) + k] = C19_Line(pieces[k], pieces[k], FALSE)
               /\ left_buf' = pieces[n]
               /\ right_buf' = pieces[n]
               /\ equal' = FALSE
       ELSE out' = out

\* C19: a flush appends exactly one line, Same{right_buf} when equal is
\* true and otherwise a Change whose side is present only if its buffer has
\* a character that is not whitespace; after a flush both buffers are empty
\* and equal is true; output_lines flushes once after the last op, so it
\* never returns zero lines.
C19_LineFlush ==
    /\ [](rpc = "done" =>
            /\ Len(out) >= 1
            /\ left_buf = <<>> /\ right_buf = <<>> /\ equal = TRUE)
    /\ [][/\ (rpc = "loop" /\ op_index = Len(operations)) => C19_FinalFlush
          /\ (rpc = "loop" /\ op_index < Len(operations)) => C19_Operation]_vars

C19_Witness ==
    /\ rpc = "done"
    /\ Len(out) = 2
    /\ out[1].type = "Change"
    /\ out[1].left = None
    /\ out[1].right # None
    /\ out[2].type = "Change"
    /\ out[2].left # None

IsSpaceInsert(o) ==
    \/ o.op = "InsertLeft" /\ unwrap(o.left).t = WhiteSpace
    \/ o.op = "InsertRight" /\ unwrap(o.right).t = WhiteSpace

\* A space marked as removed, as it is written to right_buf
C20_StruckSpace ==
    IF colorize THEN <<"ESC[9;31m", " ", "ESC[0m">> ELSE <<" ">>

\* The text of every line of out, Same or the right side of a Change
RECURSIVE C20_RightText(_)
C20_RightText(lines) ==
    IF lines = <<>> THEN <<>>
    ELSE (IF Head(lines).type = "Same" THEN Head(lines).line
          ELSE IF Head(lines).right = None THEN <<>>
          ELSE unwrap(Head(lines).right))
         \o C20_RightText(Tail(lines))

\* The whitespace InsertLeft ops that come right after an op that is not a
\* whitespace insert: the heads of the runs that show a removed space
C20_ShownRuns ==
    {i \in 2..Len(operations) :
        /\ operations[i].op = "InsertLeft"
        /\ unwrap(operations[i].left).t = WhiteSpace
        /\ ~IsSpaceInsert(operations[i - 1])}

\* prev_was_space between two ops: true at the start of the script and
\* after a whitespace insert on either side, false after any other op
C20_Flag ==
    rpc = "loop" =>
        prev_was_space = (op_index = 0 \/ IsSpaceInsert(operations[op_index]))

\* A whitespace InsertLeft: one marked-removed space when prev_was_space is
\* false, nothing otherwise; no line is flushed and the token's own text is
\* not used; prev_was_space becomes true
C20_LeftSpaceStep ==
    LET o == operations[op_index + 1]
    IN (rpc = "loop" /\ op_index < Len(operations)
        /\ o.op = "InsertLeft" /\ unwrap(o.left).t = WhiteSpace) =>
          /\ prev_was_space' = TRUE
          /\ out' = out
          /\ IF prev_was_space
             THEN /\ right_buf' = right_buf
                  /\ left_buf' = left_buf
                  /\ equal' = equal
             ELSE /\ right_buf' = right_buf \o C20_StruckSpace
                  /\ left_buf' = left_buf \o <<" ">>
                  /\ equal' = FALSE

\* C20: a whitespace InsertLeft emits one marked-removed space only when
\* prev_was_space is false and always sets prev_was_space; so a maximal run
\* of whitespace inserts shows at most one removed space, and none when it
\* starts the script or starts with a whitespace InsertRight: with colours
\* on, the output holds as many removed-space marks as there are runs whose
\* first op is a whitespace InsertLeft after an op that is no whitespace
\* insert; the text of a left whitespace token is never copied.
C20_LeftWhitespaceCollapse ==
    /\ [](/\ C20_Flag
          /\ (rpc = "done" /\ colorize) =>
                Cardinality({i \in 1..Len(C20_RightText(out)) :
                                /\ C20_RightText(out)[i] = "ESC[9;31m"
                                /\ C20_RightText(out)[i + 1] = " "})
                    = Cardinality(C20_ShownRuns))
    /\ [][C20_LeftSpaceStep]_vars

C20_Witness ==
    /\ rpc = "done"
    /\ colorize
    /\ Len(operations) = 3
    /\ operations[1].op = "Mutation"
    /\ operations[2].op = "InsertLeft"
    /\ unwrap(operations[2].left).text = <<"\n", " ">>
    /\ operations[3].op = "InsertLeft"
    /\ unwrap(operations[3].left).t = WhiteSpace
    /\ Len(out) = 1

-----------------------------------------------------------------------------
(* Further properties of the scores.                                       *)

\* C21: for every pair of tokens, of the same kind or of different kinds,
\* mutation_score returns a finite, non-negative number: the branch that
\* panics with "This is impossible" is never taken.
C21_NoPanic ==
    spc = "mutation_score" =>
        /\ unwrap(returned) # PANIC
        /\ unwrap(returned) >= 0
        /\ unwrap(returned) < INFINITY

C21_Witness ==
    /\ spc = "mutation_score"
    /\ self_token.t.kind = "BlockStart"
    /\ other_token.t.kind \in {"Word", "BlockEnd"}
    /\ unwrap(returned) = 1000

-----------------------------------------------------------------------------
(* Columns of the renderer.                                                *)

ColourMarkup == {"ESC[31m", "ESC[32m", "ESC[9;31m", "ESC[0m"}

\* The characters of a buffer that take a column: all but colour markup
Visible(buf) == SelectSeq(buf, LAMBDA c : c \notin ColourMarkup)

\* A Mutation of differing texts: each buffer grows by its text, the
\* shorter one followed by as many spaces as the lengths differ
C22_MutationStep ==
    LET o == operations[op_index + 1]
    IN (rpc = "loop" /\ op_index < Len(operations) /\ o.op = "Mutation"
        /\ unwrap(o.left).text # unwrap(o.right).text) =>
          LET l == unwrap(o.left).text
              r == unwrap(o.right).text
              pad_left == IF Len(l) < Len(r) THEN Len(r) - Len(l) ELSE 0
              pad_right == IF Len(r) < Len(l) THEN Len(l) - Len(r) ELSE 0
          IN /\ Visible(left_buf') =
                   Visible(left_buf) \o l \o [i \in 1..pad_left |-> " "]
             /\ Visible(right_buf') =
                   Visible(right_buf) \o r \o [i \in 1..pad_right |-> " "]

\* C22: after every op of a script over tokens of single-byte characters
\* the two buffers have the same visible width, colour markup not counted;
\* a Mutation of differing texts pads the shorter side with exactly as many
\* spaces as the two texts differ in length.
C22_ColumnAlignment ==
    /\ [](Len(Visible(left_buf)) = Len(Visible(right_buf)))
    /\ [][C22_MutationStep]_vars

C22_Witness ==
    /\ rpc = "loop"
    /\ colorize
    /\ op_index = 3
    /\ operations[1].op = "InsertLeft"
    /\ operations[3].op = "Mutation"
    /\ unwrap(operations[3].left).text = <<"a">>
    /\ unwrap(operations[3].right).text = <<"b", "b">>
    /\ Len(Visible(left_buf)) >= 4

\* Newline characters in the texts of the whitespace InsertRight ops among
\* the first n operations
RECURSIVE C23_Newlines(_)
C23_Newlines(n) ==
    IF n = 0 THEN 0
    ELSE C23_Newlines(n - 1) +
         (IF operations[n].op = "InsertRight"
             /\ unwrap(operations[n].right).t = WhiteSpace
          THEN Cardinality({j \in 1..Len(unwrap(operations[n].right).text) :
                               unwrap(operations[n].right).text[j] = "\n"})
          ELSE 0)

\* C23: output_lines returns exactly 1 + k lines, k being the number of
\* newline characters in the texts of the whitespace InsertRight ops; while
\* the ops are processed out holds one line per such newline met so far, so
\* no Mutation, no insert of a token that is not whitespace and no
\* whitespace InsertLeft, with or without newlines in its text, adds a line.
C23_LineCount ==
    /\ rpc = "loop" => Len(out) = C23_Newlines(op_index)
    /\ rpc = "done" => Len(out) = 1 + C23_Newlines(Len(operations))

C23_Witness ==
    /\ rpc = "done"
    /\ Len(out) = 4
    /\ \E i \in 1..Len(operations) :
          /\ operations[i].op = "InsertLeft"
          /\ unwrap(operations[i].left).text = <<"\n", " ">>

\* The ops that write to line k of the output: an op writes to the lines
\* from the one open before it to the one open after it
C24_OpsOn(k) ==
    {i \in 1..Len(operations) :
        1 + C23_Newlines(i - 1) <= k /\ k <= 1 + C23_Newlines(i)}

C24_DifferingMutation(o) ==
    o.op = "Mutation" /\ unwrap(o.left).text # unwrap(o.right).text

C24_RemovedToken(o) ==
    o.op = "InsertLeft" /\ unwrap(o.left).t # WhiteSpace

\* An InsertLeft of a token that is not whitespace: spaces to the left
\* buffer, the text marked as removed to the right buffer
C24_InsertLeftStep ==
    LET o == operations[op_index + 1]
    IN (rpc = "loop" /\ op_index < Len(operations) /\ C24_RemovedToken(o)) =>
          LET text == unwrap(o.left).text
          IN /\ left_buf' = left_buf \o [i \in 1..Len(text) |-> " "]
             /\ right_buf' =
                   right_buf \o (IF colorize
                                 THEN <<"ESC[9;31m">> \o text \o <<"ESC[0m">>
                                 ELSE text)
             /\ equal' = FALSE
             /\ out' = out

====
